---- MODULE Spec2Model ----
(***************************************************************************)
(* Model of fitnessllm_shared: the token cipher (task_utils.py) and the    *)
(* Strava OAuth refresh orchestration (streams/strava.py).                 *)
(*                                                                         *)
(* Strings are sequences of Unicode code points, byte strings are          *)
(* sequences of 0..255.  Two specifications share the module:              *)
(*   SpecCipher  applies encrypt_token / decrypt_token to bounded inputs;  *)
(*   Spec        runs concurrent strava_refresh_oauth_token invocations    *)
(*               against one Firestore document.                           *)
(***************************************************************************)
EXTENDS Integers, Sequences, FiniteSets, TLC

\* ------------------------------------------------------------------ bounds
\* Plaintexts have UTF-8 lengths 16*b + d for b in 0..MaxBlocks.
MaxBlocks == 2
\* Number of distinct IV values os.urandom may return in the model.
NumIVs == 2
\* Number of concurrent refresh invocations for the one user.
NumInvocations == 2

\* ------------------------------------------------- program constants
\* AES block size in bytes: padding.PKCS7(128), os.urandom(16).
BlockSize == 16
\* AES-256 key length in bytes.
KeyLen == 32

\* ------------------------------------------------------------ results
\* A returned value, or a raised exception (class and message).
\* cause is the class of the exception this one wraps, "" when it wraps none.
Ok(v) == [ok |-> TRUE, val |-> v, err |-> "", msg |-> "", cause |-> ""]

Raise(e, m) == [ok |-> FALSE, val |-> <<>>, err |-> e, msg |-> m, cause |-> ""]

\* ------------------------------------------------------------- bytes
RECURSIVE Xor(_, _)
\* Bitwise exclusive or of two naturals (the XOR of CBC chaining).
Xor(a, b) ==
  IF a = 0 THEN b
  ELSE IF b = 0 THEN a
  ELSE (((a % 2) + (b % 2)) % 2) + 2 * Xor(a \div 2, b \div 2)

XorBlock(x, y) == [i \in 1..BlockSize |-> Xor(x[i], y[i])]

Repeat(n, v) == [i \in 1..n |-> v]

\* bytes.ljust(32, b"\0")
LJust(kb, n) == IF Len(kb) >= n THEN kb ELSE kb \o Repeat(n - Len(kb), 0)

\* ------------------------------------------------------------- UTF-8
\* str.encode("utf-8") of one code point; surrogates cannot be encoded.
Utf8OfCodePoint(c) ==
  IF c < 128 THEN <<c>>
  ELSE IF c < 2048 THEN <<192 + (c \div 64), 128 + (c % 64)>>
  ELSE IF c < 65536
    THEN <<224 + (c \div 4096), 128 + ((c \div 64) % 64), 128 + (c % 64)>>
  ELSE <<240 + (c \div 262144), 128 + ((c \div 4096) % 64),
         128 + ((c \div 64) % 64), 128 + (c % 64)>>

RECURSIVE Utf8EncodeRange(_, _, _)
\* str.encode("utf-8") of s[lo..hi], halving the range.
Utf8EncodeRange(s, lo, hi) ==
  IF lo > hi THEN <<>>
  ELSE IF lo = hi THEN Utf8OfCodePoint(s[lo])
  ELSE LET mid == (lo + hi) \div 2
       IN Utf8EncodeRange(s, lo, mid) \o Utf8EncodeRange(s, mid + 1, hi)

Utf8Encode(s) == Utf8EncodeRange(s, 1, Len(s))

IsCont(b) == b >= 128 /\ b < 192

\* The length of the sequence a lead byte announces, 0 for a byte that cannot
\* start one (a continuation byte, 0xC0, 0xC1, 0xF5 and above).
Utf8SeqLen(b0) ==
  IF b0 < 128 THEN 1
  ELSE IF b0 >= 194 /\ b0 < 224 THEN 2
  ELSE IF b0 >= 224 /\ b0 < 240 THEN 3
  ELSE IF b0 >= 240 /\ b0 < 245 THEN 4
  ELSE 0

\* The code point of the sequence of n bytes that starts at b[i].
Utf8CodePointAt(b, i, n) ==
  IF n = 1 THEN b[i]
  ELSE IF n = 2 THEN (b[i] - 192) * 64 + (b[i + 1] - 128)
  ELSE IF n = 3
    THEN (b[i] - 224) * 4096 + (b[i + 1] - 128) * 64 + (b[i + 2] - 128)
  ELSE (b[i] - 240) * 262144 + (b[i + 1] - 128) * 4096
       + (b[i + 2] - 128) * 64 + (b[i + 3] - 128)

\* Whether a well-formed sequence starts at b[i]: complete, followed by its
\* continuation bytes, not overlong, no surrogate, at most 0x10FFFF.
Utf8WellFormedAt(b, i) ==
  LET n == Utf8SeqLen(b[i])
  IN /\ n # 0
     /\ i + n - 1 <= Len(b)
     /\ \A j \in 1..(n - 1) : IsCont(b[i + j])
     /\ LET cp == Utf8CodePointAt(b, i, n)
        IN /\ ~(n = 3 /\ cp < 2048)
           /\ ~(n = 4 /\ cp < 65536)
           /\ ~(cp >= 55296 /\ cp < 57344)
           /\ cp <= 1114111

\* bytes.decode("utf-8"), strict.  In well-formed data the sequences start
\* exactly at the bytes that are not continuation bytes, so the data is valid
\* when a well-formed sequence starts at each of them and every continuation
\* byte belongs to the sequence before it.
Utf8Decode(b) ==
  LET starts == SelectSeq([i \in 1..Len(b) |-> i], LAMBDA i : ~IsCont(b[i]))
      owned(i) == \E k \in 1..Len(starts) :
                    starts[k] < i /\ i <= starts[k] + Utf8SeqLen(b[starts[k]]) - 1
  IN IF \E i \in 1..Len(b) :
          IF IsCont(b[i]) THEN ~owned(i) ELSE ~Utf8WellFormedAt(b, i)
       THEN Raise("UnicodeDecodeError", "'utf-8' codec can't decode")
     ELSE Ok([k \in 1..Len(starts) |->
               Utf8CodePointAt(b, starts[k], Utf8SeqLen(b[starts[k]]))])

\* ------------------------------------------------------------ base64
\* The character of a 6-bit value in the standard alphabet.
B64Char(v) ==
  IF v < 26 THEN 65 + v
  ELSE IF v < 52 THEN 97 + (v - 26)
  ELSE IF v < 62 THEN 48 + (v - 52)
  ELSE IF v = 62 THEN 43
  ELSE 47

\* The 6-bit value of a character, 64 for a character outside the alphabet.
B64Val(c) ==
  IF c >= 65 /\ c <= 90 THEN c - 65
  ELSE IF c >= 97 /\ c <= 122 THEN c - 97 + 26
  ELSE IF c >= 48 /\ c <= 57 THEN c - 48 + 52
  ELSE IF c = 43 THEN 62
  ELSE IF c = 47 THEN 63
  ELSE 64

\* base64.b64encode(data).decode("utf-8"): every 3 bytes give 4 characters,
\* a last group of 1 or 2 bytes is filled with "=".
B64Encode(b) ==
  LET n == Len(b)
      at(i) == IF i <= n THEN b[i] ELSE 0
  IN [k \in 1..(4 * ((n + 2) \div 3)) |->
        LET g == (k - 1) \div 4
            j == (k - 1) % 4
            b0 == at(3 * g + 1)
            b1 == at(3 * g + 2)
            b2 == at(3 * g + 3)
        IN IF j = 0 THEN B64Char(b0 \div 4)
           ELSE IF j = 1 THEN B64Char((b0 % 4) * 16 + (b1 \div 16))
           ELSE IF j = 2
             THEN IF 3 * g + 2 > n THEN 61
                  ELSE B64Char((b1 % 16) * 4 + (b2 \div 64))
           ELSE IF 3 * g + 3 > n THEN 61 ELSE B64Char(b2 % 64)]

\* "="
IsPad(c) == c = 61

IsB64Data(c) == B64Val(c) < 64

\* binascii.a2b_base64 in its default (non strict) mode.  Characters outside
\* the alphabet are skipped.  A "=" is ignored while fewer than two characters
\* of the current quantum have been read; otherwise it counts as padding, and
\* the parse ends at the pad that completes the quantum (the first after
\* three characters, the second in a row after two): what follows is not
\* read.  Input that ends inside a quantum is an error.
A2B(s) ==
  LET f == SelectSeq(s, LAMBDA c : IsPad(c) \/ IsB64Data(c))
      quad(p) == Cardinality({j \in 1..(p - 1) : ~IsPad(f[j])}) % 4
      stops == {p \in 1..Len(f) :
                  /\ IsPad(f[p])
                  /\ \/ quad(p) = 3
                     \/ quad(p) = 2 /\ p > 1 /\ IsPad(f[p - 1])}
      stop == IF stops = {} THEN Len(f) + 1
              ELSE CHOOSE p \in stops : \A q \in stops : p <= q
      d == SelectSeq(SubSeq(f, 1, stop - 1), LAMBDA c : ~IsPad(c))
      rest == Len(d) % 4
      nbytes == 3 * (Len(d) \div 4)
                + (IF rest = 2 THEN 1 ELSE IF rest = 3 THEN 2 ELSE 0)
      v(i) == IF i <= Len(d) THEN B64Val(d[i]) ELSE 0
      out == [k \in 1..nbytes |->
                LET g == (k - 1) \div 3
                    j == (k - 1) % 3
                IN IF j = 0 THEN v(4 * g + 1) * 4 + (v(4 * g + 2) \div 16)
                   ELSE IF j = 1
                     THEN (v(4 * g + 2) % 16) * 16 + (v(4 * g + 3) \div 4)
                   ELSE (v(4 * g + 3) % 4) * 64 + v(4 * g + 4)]
  IN IF stops = {} /\ rest = 1
       THEN Raise("binascii.Error", "Invalid base64-encoded string")
     ELSE IF stops = {} /\ rest # 0
       THEN Raise("binascii.Error", "Incorrect padding")
     ELSE Ok(out)

\* base64.b64decode(str): the string is first encoded as ASCII.
B64Decode(s) ==
  IF \E i \in 1..Len(s) : s[i] >= 128
    THEN Raise("ValueError",
               "string argument should contain only ASCII characters")
  ELSE A2B(s)

\* ------------------------------------------------------------ cipher
\* A padder that adds nothing to data that is already block aligned.
PKCS7PadNoFullBlock(data) ==
  LET padLen == (BlockSize - (Len(data) % BlockSize)) % BlockSize
  IN data \o Repeat(padLen, padLen)

\* padder.update(data) + padder.finalize() of padding.PKCS7(128): 1..16 bytes
\* are appended, each equal to the number of bytes appended.
PKCS7Pad(data) ==
  LET padLen == BlockSize - (Len(data) % BlockSize)
  IN data \o Repeat(padLen, padLen)

\* Cipher(algorithms.AES(key), modes.CBC(iv)): the library rejects a key that
\* is not 128, 192 or 256 bits and an IV that is not one block.
CipherNew(key, iv) ==
  IF Len(key) \notin {16, 24, 32}
    THEN Raise("ValueError", "Invalid key size for AES")
  ELSE IF Len(iv) # BlockSize
    THEN Raise("ValueError", "Invalid IV size for CBC")
  ELSE Ok(<<key, iv>>)

\* The block cipher under a 32-byte key, abstracted to a keyed permutation of
\* the 16-byte blocks that depends on every key byte: the bytes are rotated
\* by one place and shifted by key material.
AESEncryptBlock(key, blk) ==
  [i \in 1..BlockSize |->
     (blk[(i % BlockSize) + 1] + key[i] + 3 * key[i + BlockSize] + i) % 256]

\* The inverse permutation.
AESDecryptBlock(key, blk) ==
  [i \in 1..BlockSize |->
     LET j == IF i = 1 THEN BlockSize ELSE i - 1
     IN (blk[j] + 1024 - key[j] - 3 * key[j + BlockSize] - j) % 256]

Block(data, n) == SubSeq(data, (n - 1) * BlockSize + 1, n * BlockSize)

RECURSIVE CBCEncryptFrom(_, _, _, _)
\* encryptor.update(padded): each block is XORed with the previous ciphertext
\* block (the IV for the first) and then encrypted.
CBCEncryptFrom(key, prev, data, n) ==
  IF n * BlockSize > Len(data) THEN <<>>
  ELSE LET c == AESEncryptBlock(key, XorBlock(Block(data, n), prev))
       IN c \o CBCEncryptFrom(key, c, data, n + 1)

CBCEncrypt(key, iv, data) == CBCEncryptFrom(key, iv, data, 1)

RECURSIVE CBCDecryptFrom(_, _, _, _)
CBCDecryptFrom(key, prev, data, n) ==
  IF n * BlockSize > Len(data) THEN <<>>
  ELSE XorBlock(AESDecryptBlock(key, Block(data, n)), prev)
       \o CBCDecryptFrom(key, Block(data, n), data, n + 1)

\* decryptor.update(data) + decryptor.finalize(): finalize rejects data whose
\* length is not a multiple of the block length.
CBCDecrypt(key, iv, data) ==
  IF Len(data) % BlockSize # 0
    THEN Raise("ValueError",
               "The length of the provided data is not a multiple of the block length.")
  ELSE Ok(CBCDecryptFrom(key, iv, data, 1))

\* encrypt_token's key preparation: pad with zero bytes, or truncate, to 32.
EncKeyBytes(key) ==
  LET key_bytes == Utf8Encode(key)
  IN IF Len(key_bytes) < KeyLen THEN LJust(key_bytes, KeyLen)
     ELSE IF Len(key_bytes) > KeyLen THEN SubSeq(key_bytes, 1, KeyLen)
     ELSE key_bytes

\* A key preparation that pads a short key and forgets to truncate a long one.
DecKeyBytesNoTruncate(key) == LJust(Utf8Encode(key), KeyLen)

\* decrypt_token's key preparation.
DecKeyBytes(key) ==
  LET key_bytes == Utf8Encode(key)
  IN IF Len(key_bytes) # KeyLen
       THEN IF Len(key_bytes) < KeyLen THEN LJust(key_bytes, KeyLen)
            ELSE SubSeq(key_bytes, 1, KeyLen)
     ELSE key_bytes

\* The character ":".
Colon == 58

\* encrypt_token(token, key) when os.urandom(16) returns iv.
encrypt_token(token, key, iv) ==
  LET token_bytes == Utf8Encode(token)
      key_bytes == EncKeyBytes(key)
      padded_data == PKCS7Pad(token_bytes)
      cipher == CipherNew(key_bytes, iv)
  IN IF ~cipher.ok THEN cipher
     ELSE LET encrypted_data == CBCEncrypt(key_bytes, iv, padded_data)
              iv_encoded == B64Encode(iv)
              encrypted_encoded == B64Encode(encrypted_data)
          IN Ok(iv_encoded \o <<Colon>> \o encrypted_encoded)

\* str.split(sep): the pieces between the separators, empty pieces kept.
Split(s, sep) ==
  LET seps == SelectSeq([i \in 1..Len(s) |-> i], LAMBDA i : s[i] = sep)
      \* the position of the k-th separator; 0 and Len(s) + 1 bound the string
      pos(k) == IF k = 0 THEN 0
                ELSE IF k > Len(seps) THEN Len(s) + 1
                ELSE seps[k]
  IN [k \in 1..(Len(seps) + 1) |-> SubSeq(s, pos(k - 1) + 1, pos(k) - 1)]

\* A removal of the padding whose range check excludes a full block of padding.
StripPaddingShortRange(decrypted_data) ==
  LET padding_length == decrypted_data[Len(decrypted_data)]
  IN IF 0 < padding_length /\ padding_length < 16
       THEN SubSeq(decrypted_data, 1, Len(decrypted_data) - padding_length)
     ELSE decrypted_data

\* The removal of the padding: the last byte is taken as the pad length and
\* that many bytes are dropped when it is in 1..16, none otherwise.
StripPadding(decrypted_data) ==
  LET padding_length == decrypted_data[Len(decrypted_data)]
  IN IF 0 < padding_length /\ padding_length <= 16
       THEN SubSeq(decrypted_data, 1, Len(decrypted_data) - padding_length)
     ELSE decrypted_data

\* A shape check that only rejects a string without a colon.
BadShapeTooFew(parts) == Len(parts) < 2

\* "if len(parts) != 2"
BadShape(parts) == Len(parts) # 2

\* decrypt_token(encrypted_token, key).
decrypt_token(encrypted_token, key) ==
  LET parts == Split(encrypted_token, Colon)
  IN IF BadShape(parts)
       THEN Raise("ValueError", "Invalid encrypted token format")
     ELSE LET iv == B64Decode(parts[1])
          IN IF ~iv.ok THEN iv
             ELSE LET encrypted_data == B64Decode(parts[2])
                  IN IF ~encrypted_data.ok THEN encrypted_data
                     ELSE LET key_bytes == DecKeyBytes(key)
                              cipher == CipherNew(key_bytes, iv.val)
                          IN IF ~cipher.ok THEN cipher
                             ELSE LET dec == CBCDecrypt(key_bytes, iv.val,
                                                        encrypted_data.val)
                                  IN IF ~dec.ok THEN dec
                                     ELSE IF dec.val = <<>>
                                       THEN Raise("IndexError", "index out of range")
                                     ELSE Utf8Decode(StripPadding(dec.val))

\* ------------------------------------------------------ cipher inputs
\* "0123456789abcdef0123456789abcdef", a secret of exactly 32 bytes.
K32 == [i \in 1..KeyLen |->
          LET d == (i - 1) % 16 IN IF d < 10 THEN 48 + d ELSE 97 + (d - 10)]

\* Secrets shorter than, as long as and longer than 32 bytes; some normalize
\* to the same key: K32 with bytes after position 32, "short" with trailing
\* NUL characters, and a secret whose 32nd and 33rd bytes are one character.
Secrets ==
  { K32,
    K32 \o <<88, 89>>,
    K32 \o <<90>>,
    SubSeq(K32, 1, 31) \o <<103>>,
    SubSeq(K32, 1, 31) \o <<233>>,
    <<115, 104, 111, 114, 116>>,
    <<115, 104, 111, 114, 116, 0, 0>>,
    <<>> }

\* The UTF-8 lengths of the plaintexts: 0, 1 and 15 bytes past each block
\* boundary, so that empty, block-aligned and nearly aligned inputs occur.
PlainLens == {BlockSize * b + d : b \in 0..MaxBlocks, d \in {0, 1, 15}}

\* A plaintext of n UTF-8 bytes: (1) ASCII ending in the character U+0010,
\* whose byte is itself a possible pad value, (2) starting with the two-byte
\* character U+00E9.
PlainOf(n, p) ==
  IF p = 1 \/ n < 2
    THEN [i \in 1..n |-> IF i = n THEN 16 ELSE 65 + (i % 26)]
  ELSE <<233>> \o [i \in 1..(n - 2) |-> 97 + (i % 26)]

Plaintexts == {PlainOf(n, p) : n \in PlainLens, p \in {1, 2}}

\* The values os.urandom(16) returns in the model.
IVOf(j) == [i \in 1..BlockSize |-> (j * 53 + i * 17 * j) % 256]

IVs == {IVOf(j) : j \in 1..NumIVs}

\* "not-a-valid-token"
NotAValidToken ==
  <<110, 111, 116, 45, 97, 45, 118, 97, 108, 105, 100, 45, 116, 111, 107,
    101, 110>>

\* Strings handed to decrypt_token that encrypt_token did not produce here:
\* without a colon, with several, and with one colon around segments that
\* are empty, of the wrong size, or well formed; the last two hold a "-",
\* which is outside the base64 alphabet, the second one before a token that
\* encrypt_token returned for "OLDREFRESH".
RawTokens ==
  { <<>>,
    NotAValidToken,
    <<Colon>>,
    <<Colon, Colon>>,
    <<97, Colon, 98, Colon, 99>>,
    B64Encode(IVOf(1)) \o <<Colon>> \o B64Encode(IVOf(1)) \o <<Colon>>,
    <<Colon>> \o B64Encode(IVOf(1)) \o <<Colon>> \o B64Encode(IVOf(1)),
    <<65, 65, 65, 65, Colon, 66, 66, 66, 66>>,
    B64Encode(IVOf(1)) \o <<Colon>>,
    B64Encode(IVOf(1)) \o <<Colon>> \o B64Encode(IVOf(1)),
    B64Encode(IVOf(1)) \o <<Colon>> \o B64Encode(Repeat(BlockSize, 200)),
    B64Encode(IVOf(1)) \o <<Colon, 65, 65, 65>>,
    B64Encode(IVOf(1)) \o <<Colon>> \o <<45>> \o B64Encode(IVOf(1)),
    <<45>> \o encrypt_token(<<79, 76, 68, 82, 69, 70, 82, 69, 83, 72>>, K32,
                             IVOf(1)).val }

\* --------------------------------------------------------------- state
VARIABLES
  \* cipher specification
  cpc,        \* "start", "encrypted", "decrypted", "rawdone"
  plain,      \* encrypt_token's token argument
  secret,     \* encrypt_token's key argument
  iv,         \* the IV os.urandom returned
  encrypted,  \* encrypt_token's result
  token,      \* decrypt_token's encrypted_token argument
  secret2,    \* decrypt_token's key argument
  result,     \* decrypt_token's result
  \* refresh specification
  pc,             \* each invocation's position
  encryption_key, \* each invocation's local encryption_key
  strava_secret,  \* what get_secret returned for each invocation's strava_secret
  token_response, \* each invocation's local token_response
  new_tokens,     \* each invocation's local new_tokens
  doc_exists,     \* each invocation's doc.exists, as read by strava_ref.get()
  raised,         \* the exception each invocation raised to its caller
  trace,          \* the calls each invocation made, in order
  doc,            \* the document users/{uid}/stream/strava
  issued,         \* the number of token pairs the provider has issued
  now,            \* the clock datetime.now reads
  error_log       \* the messages each invocation gave structured_logger.error

cvars == <<cpc, plain, secret, iv, encrypted, token, secret2, result>>

rvars == <<pc, encryption_key, strava_secret, token_response, new_tokens,
           doc_exists, raised, trace, doc, issued, now, error_log>>

vars == <<cpc, plain, secret, iv, encrypted, token, secret2, result,
          pc, encryption_key, strava_secret, token_response, new_tokens,
          doc_exists, raised, trace, doc, issued, now, error_log>>

\* The result of a call not made yet.
NotCalled == Raise("", "")

\* No exception raised.
NoException == Ok(<<>>)

\* The invocations of strava_refresh_oauth_token, all for the same uid.
Procs == 1..NumInvocations

\* A dict without keys.
EmptyDict == [f \in {} |-> <<>>]

\* The state of the refresh variables while the cipher alone is exercised.
RefreshIdle ==
  /\ pc = [i \in Procs |-> "idle"]
  /\ encryption_key = [i \in Procs |-> <<>>]
  /\ strava_secret = [i \in Procs |-> NotCalled]
  /\ token_response = [i \in Procs |-> EmptyDict]
  /\ new_tokens = [i \in Procs |-> EmptyDict]
  /\ doc_exists = [i \in Procs |-> FALSE]
  /\ raised = [i \in Procs |-> NoException]
  /\ trace = [i \in Procs |-> <<>>]
  /\ doc = [exists |-> FALSE, data |-> EmptyDict]
  /\ issued = 0
  /\ now = 0
  /\ error_log = [i \in Procs |-> <<>>]

\* The state of the cipher variables while the refresh is exercised.
CipherIdle ==
  /\ cpc = "idle"
  /\ plain = <<>>
  /\ secret = <<>>
  /\ iv = <<>>
  /\ encrypted = NotCalled
  /\ token = <<>>
  /\ secret2 = <<>>
  /\ result = NotCalled

CipherInit ==
  /\ RefreshIdle
  /\ cpc = "start"
  /\ plain \in Plaintexts
  /\ secret \in Secrets
  /\ iv = <<>>
  /\ encrypted = NotCalled
  /\ token = <<>>
  /\ secret2 = <<>>
  /\ result = NotCalled

\* A call encrypt_token(plain, secret); os.urandom draws the IV.
Encrypt ==
  /\ cpc = "start"
  /\ \E v \in IVs :
       /\ iv' = v
       /\ encrypted' = encrypt_token(plain, secret, v)
  /\ cpc' = "encrypted"
  /\ UNCHANGED <<plain, secret, token, secret2, result>>
  /\ UNCHANGED rvars

\* A call decrypt_token(t, k2) on the string encrypt_token returned.
Decrypt ==
  /\ cpc = "encrypted"
  /\ encrypted.ok
  /\ \E k2 \in Secrets :
       /\ secret2' = k2
       /\ token' = encrypted.val
       /\ result' = decrypt_token(encrypted.val, k2)
  /\ cpc' = "decrypted"
  /\ UNCHANGED <<plain, secret, iv, encrypted>>
  /\ UNCHANGED rvars

\* A call decrypt_token(t, secret) on a string from elsewhere.
DecryptRaw ==
  /\ cpc = "start"
  /\ \E t \in RawTokens :
       /\ token' = t
       /\ result' = decrypt_token(t, secret)
  /\ secret2' = secret
  /\ cpc' = "rawdone"
  /\ UNCHANGED <<plain, secret, iv, encrypted>>
  /\ UNCHANGED rvars

CipherNext == Encrypt \/ Decrypt \/ DecryptRaw

SpecCipher == CipherInit /\ [][CipherNext]_vars

\* ------------------------------------------------------------ refresh
\* The four credential fields of the document.
TokenFields == {"accessToken", "refreshToken", "expiresAt", "lastTokenRefresh"}

\* dict.get(k): None when the key is absent.
DictGet(d, k) ==
  IF k \in DOMAIN d THEN [none |-> FALSE, v |-> d[k]]
  ELSE [none |-> TRUE, v |-> <<>>]

\* Python's "not x" for None and for strings.
Falsy(x) == x.none \/ x.v = <<>>

\* "abc" and "xyz"
ClientId == <<97, 98, 99>>

ClientSecret == <<120, 121, 122>>

\* What get_secret(environ["ENCRYPTION_SECRET"]) may give: the secret's dict,
\* a dict without "token", or the exception get_secret re-raises.
EncryptionSecretResults ==
  { Ok([token |-> K32]),
    Ok(EmptyDict),
    Raise("PermissionDenied", "secret manager") }

\* What get_secret(environ["STRAVA_SECRET"]) may give.
StravaSecretResults ==
  { Ok([client_id |-> ClientId, client_secret |-> ClientSecret]),
    Ok([client_id |-> ClientId]),
    Ok([client_id |-> <<>>, client_secret |-> ClientSecret]),
    Raise("PermissionDenied", "secret manager") }

\* A check that forgets the client secret.
CredentialsMissingIdOnly(secret_dict) ==
  Falsy(DictGet(secret_dict, "client_id"))

\* "if not client_id or not client_secret"
CredentialsMissing(secret_dict) ==
  LET client_id == DictGet(secret_dict, "client_id")
      client_secret == DictGet(secret_dict, "client_secret")
  IN Falsy(client_id) \/ Falsy(client_secret)

\* A call in an invocation's trace; data and merge are a store call's arguments.
Call(op) == [op |-> op, data |-> EmptyDict, merge |-> FALSE]

StoreCall(op, data, merge) == [op |-> op, data |-> data, merge |-> merge]

\* The statements before the try block, given what the two get_secret calls
\* return: the exception raised (none when .ok), the locals, the calls made.
SecretsOutcome(ek, ss) ==
  LET one == <<Call("get_secret")>>
      two == <<Call("get_secret"), Call("get_secret")>>
      out(r, k, d, t) == [raised |-> r, key |-> k, creds |-> d, calls |-> t]
  IN IF ~ek.ok THEN out(ek, <<>>, NotCalled, one)
     ELSE IF "token" \notin DOMAIN ek.val
       THEN out(Raise("KeyError", "token"), <<>>, NotCalled, one)
     ELSE IF ~ss.ok THEN out(ss, ek.val.token, ss, two)
     ELSE IF CredentialsMissing(ss.val)
       THEN out(Raise("ValueError",
                      "Strava credentials not found in Secret Manager"),
                ek.val.token, ss, two)
     ELSE out(NoException, ek.val.token, ss, two)

\* An except block that raises a new TokenRefreshError from the one caught.
ReRaiseWrapped(e) == [e EXCEPT !.err = "TokenRefreshError", !.cause = e.err]

\* "raise" in the except block: the exception caught is raised again as it is.
ReRaise(e) == e

\* The provider's n-th token pair: "NEWACCESS<n>", "NEWREFRESH<n>" and an
\* expiry.
ProviderResponse(n) ==
  [access_token |-> <<78, 69, 87, 65, 67, 67, 69, 83, 83, 48 + n>>,
   refresh_token |-> <<78, 69, 87, 82, 69, 70, 82, 69, 83, 72, 48 + n>>,
   expires_at |-> 1700000000 + n]

\* What client.refresh_access_token may do: return a pair, or raise.
ProviderFailure == Raise("Fault", "provider refused the refresh")

\* The refresh_token arguments: the stored refresh token "OLDREFRESH"
\* encrypted under K32, and a string that is no encrypted token.
RefreshTokenArgs ==
  { encrypt_token(<<79, 76, 68, 82, 69, 70, 82, 69, 83, 72>>, K32, IVOf(1)).val,
    NotAValidToken }

\* The IVs of the two encrypt_token calls of one invocation.
IVPairs == {<<IVOf(1), IVOf(2)>>, <<IVOf(2), IVOf(2)>>}

\* The new_tokens dict, or the exception an encrypt_token call raised.
NewTokens(response, key, ivs, t) ==
  LET access == encrypt_token(response.access_token, key, ivs[1])
      refresh == encrypt_token(response.refresh_token, key, ivs[2])
  IN IF ~access.ok THEN access
     ELSE IF ~refresh.ok THEN refresh
     ELSE Ok([accessToken |-> access.val,
              refreshToken |-> refresh.val,
              expiresAt |-> response.expires_at,
              lastTokenRefresh |-> t])

\* An update that leaves the timestamp out.
UpdateFieldsNoTimestamp(tokens) ==
  [accessToken |-> tokens.accessToken,
   refreshToken |-> tokens.refreshToken,
   expiresAt |-> tokens.expiresAt]

\* An update that leaves the refresh token out.
UpdateFieldsStaleRefresh(tokens) ==
  [accessToken |-> tokens.accessToken,
   expiresAt |-> tokens.expiresAt,
   lastTokenRefresh |-> tokens.lastTokenRefresh]

\* The dict handed to strava_ref.update.
UpdateFields(tokens) ==
  [accessToken |-> tokens.accessToken,
   refreshToken |-> tokens.refreshToken,
   expiresAt |-> tokens.expiresAt,
   lastTokenRefresh |-> tokens.lastTokenRefresh]

\* A set call without merge.
SetCallNoMerge(tokens) == StoreCall("set", tokens, FALSE)

\* strava_ref.set(new_tokens, merge=True)
SetCall(tokens) == StoreCall("set", tokens, TRUE)

\* strava_ref.update({...})
UpdateCall(tokens) == StoreCall("update", UpdateFields(tokens), FALSE)

\* A provider call made a second time.
ProviderCallsRetried ==
  <<Call("refresh_access_token"), Call("refresh_access_token")>>

\* The calls of the statement token_response = client.refresh_access_token(
\* ..., refresh_token=decrypt_token(...)) once the argument is decrypted.
ProviderCalls == <<Call("refresh_access_token")>>

\* The two encrypt_token calls that build new_tokens.
EncryptCalls == <<Call("encrypt_token"), Call("encrypt_token")>>

\* A merge in which a field the document already holds is not overwritten.
MergeFieldsOldWins(old, new) ==
  [f \in (DOMAIN old) \cup (DOMAIN new) |->
     IF f \in DOMAIN old THEN old[f] ELSE new[f]]

\* The fields of old overwritten and extended by those of new.
MergeFields(old, new) ==
  [f \in (DOMAIN old) \cup (DOMAIN new) |->
     IF f \in DOMAIN new THEN new[f] ELSE old[f]]

\* DocumentReference.set(data, merge): creates the document when absent; with
\* merge the fields not named in data are kept, without it they are dropped.
FirestoreSet(d, data, merge) ==
  [exists |-> TRUE,
   data |-> IF merge /\ d.exists THEN MergeFields(d.data, data) ELSE data]

\* DocumentReference.update(data): overwrites the named fields of an existing
\* document; NotFound when there is none.
FirestoreUpdate(d, data) ==
  IF ~d.exists THEN Raise("NotFound", "no document to update")
  ELSE Ok([exists |-> TRUE, data |-> MergeFields(d.data, data)])

\* An error of the document store's transport.
StoreFailure == Raise("ServiceUnavailable", "document store")

\* The document the registration flow creates: encrypted tokens, an expiry,
\* and fields this code never writes.
RegisteredDoc ==
  [exists |-> TRUE,
   data |-> [accessToken |->
               encrypt_token(<<79, 76, 68, 65, 67, 67, 69, 83, 83>>, K32,
                             IVOf(1)).val,
             refreshToken |->
               encrypt_token(<<79, 76, 68, 82, 69, 70, 82, 69, 83, 72>>, K32,
                             IVOf(1)).val,
             expiresAt |-> 1600000000,
             lastTokenRefresh |-> 0,
             athleteId |-> 42,
             connected |-> TRUE]]

RefreshInit ==
  /\ CipherIdle
  /\ pc = [i \in Procs |-> "start"]
  /\ encryption_key = [i \in Procs |-> <<>>]
  /\ strava_secret = [i \in Procs |-> NotCalled]
  /\ token_response = [i \in Procs |-> EmptyDict]
  /\ new_tokens = [i \in Procs |-> EmptyDict]
  /\ doc_exists = [i \in Procs |-> FALSE]
  /\ raised = [i \in Procs |-> NoException]
  /\ trace = [i \in Procs |-> <<>>]
  /\ doc = [exists |-> FALSE, data |-> EmptyDict]
  /\ issued = 0
  /\ now = 1
  /\ error_log = [i \in Procs |-> <<>>]

\* structured_logger.error is called with each of msgs.
LogErrors(i, msgs) ==
  error_log' = [error_log EXCEPT ![i] = error_log[i] \o msgs]

\* The error the check of the credentials logs before it raises.
CredentialsLog(e) ==
  IF e.msg = "Strava credentials not found in Secret Manager"
    THEN <<"Strava credentials not found">>
  ELSE <<>>

\* The error the except block logs before it raises again.
ExceptLog == <<"Error refreshing token">>

\* The error strava_update_user_tokens logs when it read no document.
MissingDocLog(exists) ==
  IF exists THEN <<>>
  ELSE <<"Strava document doesn't exist in stream subcollection">>

\* An invocation that logs its failure and returns as if it had succeeded.
FailSwallowed(i, e, calls) ==
  /\ pc' = [pc EXCEPT ![i] = "done"]
  /\ raised' = raised
  /\ trace' = [trace EXCEPT ![i] = trace[i] \o calls]

\* The invocation ends with exception e raised to the caller.
Fail(i, e, calls) ==
  /\ pc' = [pc EXCEPT ![i] = "failed"]
  /\ raised' = [raised EXCEPT ![i] = e]
  /\ trace' = [trace EXCEPT ![i] = trace[i] \o calls]

\* strava_refresh_oauth_token up to the try block: the two secrets are
\* fetched and the provider credentials checked.
FetchSecrets(i) ==
  /\ pc[i] = "start"
  /\ \E ek \in EncryptionSecretResults, ss \in StravaSecretResults :
       LET out == SecretsOutcome(ek, ss)
       IN /\ encryption_key' = [encryption_key EXCEPT ![i] = out.key]
          /\ strava_secret' = [strava_secret EXCEPT ![i] = out.creds]
          /\ LogErrors(i, CredentialsLog(out.raised))
          /\ IF out.raised.ok
               THEN /\ pc' = [pc EXCEPT ![i] = "ready"]
                    /\ trace' = [trace EXCEPT ![i] = trace[i] \o out.calls]
                    /\ UNCHANGED raised
             ELSE Fail(i, out.raised, out.calls)
  /\ UNCHANGED <<token_response, new_tokens, doc_exists, doc, issued, now>>
  /\ UNCHANGED cvars

\* The try block up to new_tokens: the refresh token is decrypted, the
\* provider called once, the new pair encrypted and stamped.
RefreshTokens(i) ==
  /\ pc[i] = "ready"
  /\ \E rt \in RefreshTokenArgs, succeeds \in BOOLEAN, ivs \in IVPairs :
       LET plain_rt == decrypt_token(rt, encryption_key[i])
           response == ProviderResponse(issued + 1)
           tokens == NewTokens(response, encryption_key[i], ivs, now)
           called == <<Call("decrypt_token")>> \o ProviderCalls
       IN IF ~plain_rt.ok
            THEN /\ Fail(i, ReRaise(plain_rt), <<Call("decrypt_token")>>)
                 /\ LogErrors(i, ExceptLog)
                 /\ UNCHANGED <<token_response, new_tokens, issued, now>>
          ELSE IF ~succeeds
            THEN /\ Fail(i, ReRaise(ProviderFailure), called)
                 /\ LogErrors(i, ExceptLog)
                 /\ UNCHANGED <<token_response, new_tokens, issued, now>>
          ELSE IF ~tokens.ok
            THEN /\ Fail(i, ReRaise(tokens), called \o EncryptCalls)
                 /\ token_response' = [token_response EXCEPT ![i] = response]
                 /\ issued' = issued + 1
                 /\ LogErrors(i, ExceptLog)
                 /\ UNCHANGED <<new_tokens, now>>
          ELSE /\ pc' = [pc EXCEPT ![i] = "refreshed"]
               /\ token_response' = [token_response EXCEPT ![i] = response]
               /\ new_tokens' = [new_tokens EXCEPT ![i] = tokens.val]
               /\ trace' = [trace EXCEPT ![i] =
                                trace[i] \o called \o EncryptCalls]
               /\ issued' = issued + 1
               /\ now' = now + 1
               /\ UNCHANGED <<raised, error_log>>
  /\ UNCHANGED <<encryption_key, strava_secret, doc_exists, doc>>
  /\ UNCHANGED cvars

\* strava_update_user_tokens: doc = strava_ref.get().
GetDoc(i) ==
  /\ pc[i] = "refreshed"
  /\ \/ /\ pc' = [pc EXCEPT ![i] = "read"]
        /\ doc_exists' = [doc_exists EXCEPT ![i] = doc.exists]
        /\ trace' = [trace EXCEPT ![i] = Append(trace[i], Call("get"))]
        /\ UNCHANGED <<raised, error_log>>
     \/ /\ Fail(i, ReRaise(StoreFailure), <<Call("get")>>)
        /\ LogErrors(i, ExceptLog)
        /\ UNCHANGED doc_exists
  /\ UNCHANGED <<encryption_key, strava_secret, token_response, new_tokens,
                 doc, issued, now>>
  /\ UNCHANGED cvars

\* strava_update_user_tokens after the read: set(new_tokens, merge=True) when
\* the document was absent, update of the four fields when it was there.
WriteDoc(i) ==
  /\ pc[i] = "read"
  /\ LET call == IF ~doc_exists[i] THEN SetCall(new_tokens[i])
                 ELSE UpdateCall(new_tokens[i])
         written == IF ~doc_exists[i]
                      THEN Ok(FirestoreSet(doc, call.data, call.merge))
                    ELSE FirestoreUpdate(doc, call.data)
     IN \/ /\ written.ok
           /\ doc' = written.val
           /\ pc' = [pc EXCEPT ![i] = "done"]
           /\ trace' = [trace EXCEPT ![i] = Append(trace[i], call)]
           /\ LogErrors(i, MissingDocLog(doc_exists[i]))
           /\ UNCHANGED raised
        \/ /\ Fail(i, ReRaise(IF written.ok THEN StoreFailure ELSE written),
                   <<call>>)
           /\ LogErrors(i, MissingDocLog(doc_exists[i]) \o ExceptLog)
           /\ UNCHANGED doc
  /\ UNCHANGED <<encryption_key, strava_secret, token_response, new_tokens,
                 doc_exists, issued, now>>
  /\ UNCHANGED cvars

\* The registration flow creates the user's document.
Register ==
  /\ ~doc.exists
  /\ doc' = RegisteredDoc
  /\ UNCHANGED <<pc, encryption_key, strava_secret, token_response,
                 new_tokens, doc_exists, raised, trace, issued, now,
                 error_log>>
  /\ UNCHANGED cvars

Next ==
  \/ \E i \in Procs : FetchSecrets(i)
  \/ \E i \in Procs : RefreshTokens(i)
  \/ \E i \in Procs : GetDoc(i)
  \/ \E i \in Procs : WriteDoc(i)
  \/ Register

Spec == RefreshInit /\ [][Next]_vars

\* ------------------------------------------------------ cipher claims
\* The number of occurrences of character c in string s.
CountChar(s, c) == Cardinality({i \in 1..Len(s) : s[i] = c})

\* The secret's bytes with zero bytes after them, cut to the first 32.
Norm32(k) ==
  LET kb == Utf8Encode(k)
  IN [i \in 1..32 |-> IF i <= Len(kb) THEN kb[i] ELSE 0]

\* C1: decrypting what encrypt_token returned, under the same secret, gives
\* back exactly the plaintext, for every plaintext (the empty one and those
\* whose UTF-8 length is a multiple of 16 included), secret and IV.
C1_RoundTrip ==
  (cpc = "decrypted" /\ secret2 = secret) => result = Ok(plain)

\* A block-aligned, non-empty plaintext went through encrypt and decrypt
\* under one secret.
C1_Witness ==
  /\ cpc = "decrypted"
  /\ secret2 = secret
  /\ Len(Utf8Encode(plain)) = 2 * BlockSize
  /\ result = Ok(plain)

\* C8: a string whose split on ":" does not give exactly two parts (no colon,
\* or two and more) makes decrypt_token raise the format error of the shape
\* check, whatever the secret; no value is returned and no error of the later
\* steps (base64, cipher, UTF-8) appears.
C8_MalformedShapeRejected ==
  (cpc = "rawdone" /\ CountChar(token, Colon) # 1) =>
    result = Raise("ValueError", "Invalid encrypted token format")

\* decrypt_token was applied to "not-a-valid-token" and raised.
C8_Witness ==
  /\ cpc = "rawdone"
  /\ token = NotAValidToken
  /\ ~result.ok
  /\ result.err = "ValueError"

\* C9: both functions use a key of exactly 32 bytes, and a token encrypted
\* under k1 decrypts to the plaintext under every k2 whose bytes, zero padded
\* and cut to 32, equal those of k1.
C9_KeyNormalization ==
  /\ cpc \in {"encrypted", "decrypted"} =>
       /\ Len(EncKeyBytes(secret)) = 32
       /\ EncKeyBytes(secret) = Norm32(secret)
  /\ cpc = "decrypted" =>
       /\ Len(DecKeyBytes(secret2)) = 32
       /\ DecKeyBytes(secret2) = Norm32(secret2)
       /\ Norm32(secret) = Norm32(secret2) => result = Ok(plain)

\* A token encrypted under a 32-byte secret was decrypted under a longer,
\* different secret with the same first 32 bytes.
C9_Witness ==
  /\ cpc = "decrypted"
  /\ secret # secret2
  /\ Len(Utf8Encode(secret2)) > 32
  /\ Norm32(secret) = Norm32(secret2)
  /\ plain # <<>>
  /\ result = Ok(plain)

\* C10: encrypt_token does not fail; the ciphertext segment decodes to
\* 16 * (n \div 16 + 1) bytes for a plaintext of n UTF-8 bytes, the IV segment
\* to 16 bytes; and the ciphertext is the encryption of the plaintext bytes
\* followed by k bytes of value k, 1 <= k <= 16.
C10_CiphertextShape ==
  cpc \in {"encrypted", "decrypted"} =>
    /\ encrypted.ok
    /\ LET parts == Split(encrypted.val, Colon)
           bytes == Utf8Encode(plain)
           n == Len(bytes)
       IN /\ Len(parts) = 2
          /\ LET ivd == B64Decode(parts[1])
                 ct == B64Decode(parts[2])
             IN /\ ivd.ok /\ ivd.val = iv /\ Len(ivd.val) = 16
                /\ ct.ok
                /\ Len(ct.val) = 16 * ((n \div 16) + 1)
                /\ Len(ct.val) > 0 /\ Len(ct.val) % 16 = 0
                /\ LET padded == CBCDecrypt(Norm32(secret), iv, ct.val)
                       k == Len(ct.val) - n
                   IN /\ padded.ok
                      /\ k >= 1 /\ k <= 16
                      /\ SubSeq(padded.val, 1, n) = bytes
                      /\ \A j \in (n + 1)..Len(ct.val) : padded.val[j] = k

\* encrypt_token returned for a plaintext of exactly one block.
C10_Witness ==
  /\ cpc = "encrypted"
  /\ encrypted.ok
  /\ Len(Utf8Encode(plain)) = BlockSize
  /\ Len(encrypted.val) > 2 * BlockSize

\* ----------------------------------------------------- refresh claims
\* The number of calls of a trace whose operation is in ops.
CountOps(tr, ops) == Cardinality({k \in 1..Len(tr) : tr[k].op \in ops})

StoreOps == {"get", "set", "update"}

StoreWrites == {"set", "update"}

LastCall(i) == trace[i][Len(trace[i])]

\* The fields of d other than the four token fields are in e with their values.
SiblingsKept(d, e) ==
  \A f \in (DOMAIN d.data) \ TokenFields :
    f \in DOMAIN e.data /\ e.data[f] = d.data[f]

\* C2: an invocation that read an existing document makes, as its write,
\* exactly one update call and no set call; the update names exactly the four
\* token fields, its accessToken and refreshToken decrypt under the fetched
\* key to the provider's access_token and refresh_token, its expiresAt is the
\* provider's expires_at; the document's other fields are left as they were.
C2_ExistingDocUpdate ==
  [][\A i \in Procs :
       (pc[i] = "read" /\ pc'[i] # "read" /\ doc_exists[i]) =>
         LET tr == trace'[i]
             upd == tr[Len(tr)]
         IN /\ CountOps(tr, {"update"}) = 1
            /\ CountOps(tr, {"set"}) = 0
            /\ upd.op = "update"
            /\ DOMAIN upd.data = TokenFields
            /\ decrypt_token(upd.data.accessToken, encryption_key[i])
                 = Ok(token_response[i].access_token)
            /\ decrypt_token(upd.data.refreshToken, encryption_key[i])
                 = Ok(token_response[i].refresh_token)
            /\ upd.data.expiresAt = token_response[i].expires_at
            /\ SiblingsKept(doc, doc')
            /\ (DOMAIN doc'.data) \ TokenFields = (DOMAIN doc.data) \ TokenFields
            /\ pc'[i] = "done" =>
                 \A f \in TokenFields : doc'.data[f] = upd.data[f]]_vars

\* An invocation updated an existing document that has other fields.
C2_Witness ==
  \E i \in Procs :
    /\ pc[i] = "done"
    /\ doc_exists[i]
    /\ LastCall(i).op = "update"
    /\ "athleteId" \in DOMAIN doc.data
    /\ doc.data.accessToken = new_tokens[i].accessToken

\* C3: an invocation that read no document makes, as its write, exactly one
\* set call with merge enabled carrying the four fields of the new token set,
\* and no update call; a field outside the four that the document holds when
\* the call arrives is kept with its value.
C3_FirstTimeCreate ==
  [][\A i \in Procs :
       (pc[i] = "read" /\ pc'[i] # "read" /\ ~doc_exists[i]) =>
         LET tr == trace'[i]
             cr == tr[Len(tr)]
         IN /\ CountOps(tr, {"set"}) = 1
            /\ CountOps(tr, {"update"}) = 0
            /\ cr.op = "set"
            /\ cr.merge
            /\ cr.data = new_tokens[i]
            /\ DOMAIN cr.data = TokenFields
            /\ SiblingsKept(doc, doc')
            /\ pc'[i] = "done" =>
                 /\ doc'.exists
                 /\ \A f \in TokenFields : doc'.data[f] = new_tokens[i][f]]_vars

\* An invocation that had read no document wrote with set onto a document
\* registered in between, whose other fields are still there.
C3_Witness ==
  \E i \in Procs :
    /\ pc[i] = "done"
    /\ ~doc_exists[i]
    /\ LastCall(i).op = "set"
    /\ "athleteId" \in DOMAIN doc.data
    /\ doc.data.athleteId = RegisteredDoc.data.athleteId
    /\ doc.data.refreshToken = new_tokens[i].refreshToken

\* The invocation ended in the provider call raising.
ProviderRaised(i) ==
  /\ pc[i] = "failed"
  /\ trace[i] # <<>>
  /\ LastCall(i).op = "refresh_access_token"

\* C4 as stated: when the provider call raises, the caller gets a
\* TokenRefreshError whose cause is the provider's exception, and the store
\* got no call.
C4_WrappedAsTokenRefreshError ==
  \A i \in Procs :
    ProviderRaised(i) =>
      /\ raised[i].err = "TokenRefreshError"
      /\ raised[i].cause = ProviderFailure.err
      /\ CountOps(trace[i], StoreOps) = 0

\* C4 as amended: when the provider call raises, the caller gets the
\* provider's exception itself, unchanged and unwrapped, and the store got
\* no call.
C4_ProviderFailurePropagates ==
  \A i \in Procs :
    ProviderRaised(i) =>
      /\ raised[i] = ProviderFailure
      /\ CountOps(trace[i], StoreOps) = 0

\* An invocation ended in the provider's exception.
C4_Witness ==
  \E i \in Procs :
    /\ ProviderRaised(i)
    /\ raised[i].err = "Fault"
    /\ CountOps(trace[i], {"decrypt_token"}) = 1

\* The dict lacks key k: absent, or the empty string.
Lacks(d, k) == k \notin DOMAIN d \/ d[k] = <<>>

\* The provider secret was fetched and lacks client_id or client_secret.
ProviderSecretIncomplete(i) ==
  /\ strava_secret[i].ok
  /\ \/ Lacks(strava_secret[i].val, "client_id")
     \/ Lacks(strava_secret[i].val, "client_secret")

\* C5: when the provider secret lacks client_id or client_secret, the
\* invocation fails with the credentials-missing error, having neither
\* decrypted the refresh token, nor called the provider, nor read or written
\* the document.
C5_MissingCredentialsFailFast ==
  \A i \in Procs :
    ProviderSecretIncomplete(i) =>
      /\ pc[i] = "failed"
      /\ raised[i] = Raise("ValueError",
                           "Strava credentials not found in Secret Manager")
      /\ CountOps(trace[i], {"decrypt_token", "refresh_access_token",
                             "encrypt_token", "get", "set", "update"}) = 0

\* An invocation failed on a provider secret without client_secret while
\* another one went on to write the document.
C5_Witness ==
  \E i, j \in Procs :
    /\ strava_secret[i].ok
    /\ "client_secret" \notin DOMAIN strava_secret[i].val
    /\ pc[i] = "failed"
    /\ pc[j] = "done"

\* The four token fields of the document are those of invocation i's token set.
FromInvocation(i) ==
  /\ DOMAIN new_tokens[i] = TokenFields
  /\ \A f \in TokenFields :
       f \in DOMAIN doc.data /\ doc.data[f] = new_tokens[i][f]

\* The four token fields of the document are those it was registered with.
PreExisting ==
  \A f \in TokenFields :
    f \in DOMAIN doc.data /\ doc.data[f] = RegisteredDoc.data[f]

\* C6: in every reachable state the four token fields of the stored document
\* are all those of one invocation's token set, or all the values the document
\* had before any refresh; never a mix or a partly updated subset.
C6_FourFieldsFromOneInvocation ==
  doc.exists => (PreExisting \/ \E i \in Procs : FromInvocation(i))

\* Two invocations both wrote, and the document holds the token set of the one
\* the provider served first.
C6_Witness ==
  \E i, j \in Procs :
    /\ i # j
    /\ pc[i] = "done" /\ pc[j] = "done"
    /\ FromInvocation(i)
    /\ token_response[j].expires_at > token_response[i].expires_at
    /\ "athleteId" \in DOMAIN doc.data

\* The invocation failed before the provider call: while fetching the secrets
\* or decrypting the refresh token.
FailedBeforeProvider(i) ==
  /\ pc[i] = "failed"
  /\ raised[i].err \notin {ProviderFailure.err, StoreFailure.err, "NotFound"}

\* C7 as stated: every finished invocation made exactly one provider refresh
\* call and at most one store write.
C7_ExactlyOneProviderCall ==
  \A i \in Procs :
    pc[i] \in {"done", "failed"} =>
      /\ CountOps(trace[i], {"refresh_access_token"}) = 1
      /\ CountOps(trace[i], StoreWrites) <= 1

\* C7 as amended: an invocation never makes more than one provider refresh
\* call nor more than one store write; it has made exactly one provider call
\* once it is past the decryption of the refresh token, and none when it
\* failed before (secrets, credentials, decryption); one that returned made
\* exactly one write.
C7_AtMostOneProviderCall ==
  \A i \in Procs :
    /\ CountOps(trace[i], {"refresh_access_token"}) <= 1
    /\ CountOps(trace[i], StoreWrites) <= 1
    /\ pc[i] \in {"start", "ready"} =>
         CountOps(trace[i], {"refresh_access_token"}) = 0
    /\ pc[i] \in {"refreshed", "read", "done"} =>
         CountOps(trace[i], {"refresh_access_token"}) = 1
    /\ pc[i] = "failed" =>
         CountOps(trace[i], {"refresh_access_token"})
           = (IF FailedBeforeProvider(i) THEN 0 ELSE 1)
    /\ pc[i] = "done" => CountOps(trace[i], StoreWrites) = 1

\* One invocation failed in its store write, after its one provider call, and
\* another failed on the credentials, without any.
C7_Witness ==
  \E i, j \in Procs :
    /\ pc[i] = "failed"
    /\ raised[i] = StoreFailure
    /\ CountOps(trace[i], {"refresh_access_token"}) = 1
    /\ CountOps(trace[i], StoreWrites) = 1
    /\ pc[j] = "failed"
    /\ FailedBeforeProvider(j)
    /\ CountOps(trace[j], {"refresh_access_token"}) = 0

\* The four token fields of document d are those of invocation i's token set.
HoldsTokensOf(d, i) ==
  /\ d.exists
  /\ DOMAIN new_tokens[i] = TokenFields
  /\ \A f \in TokenFields :
       f \in DOMAIN d.data /\ d.data[f] = new_tokens[i][f]

\* The four token fields of documents d and e are the same.
SameTokens(d, e) ==
  /\ d.exists = e.exists
  /\ \A f \in TokenFields :
       /\ (f \in DOMAIN d.data) = (f \in DOMAIN e.data)
       /\ f \in DOMAIN d.data => d.data[f] = e.data[f]

\* C11: last write wins.  A write that the store accepts is applied whatever
\* token set the document holds and whoever wrote it (nothing is compared, no
\* conflict is raised): right after invocation i's write the document holds
\* i's token set, also when the provider served another invocation later; and
\* the stored token set changes in no other step of an invocation, so it is
\* always that of the write that happened last.
C11_LastWriteWins ==
  [][/\ \A i \in Procs :
          (pc[i] = "read" /\ pc'[i] = "done") => HoldsTokensOf(doc', i)
     /\ (doc.exists /\ ~SameTokens(doc, doc')) =>
          \E i \in Procs : pc[i] = "read" /\ pc'[i] = "done"
     /\ \A i \in Procs :
          (pc[i] = "read" /\ pc'[i] = "failed") =>
            raised'[i].err \notin {"NotFound", "Conflict", "Aborted"}]_vars

\* Two invocations both updated the existing document; it holds the token set
\* of the one the provider served first, whose write came last.
C11_Witness ==
  \E i, j \in Procs :
    /\ i # j
    /\ pc[i] = "done" /\ pc[j] = "done"
    /\ doc_exists[i] /\ doc_exists[j]
    /\ LastCall(i).op = "update" /\ LastCall(j).op = "update"
    /\ HoldsTokensOf(doc, i)
    /\ ~HoldsTokensOf(doc, j)
    /\ token_response[i].expires_at < token_response[j].expires_at

\* The operations of trace[i], in the order the invocation made them.
OpsOf(i) == [n \in 1..Len(trace[i]) |-> trace[i][n].op]

\* The operations of an invocation in which every step succeeded.
AllSteps(write) ==
  <<"get_secret", "get_secret", "decrypt_token", "refresh_access_token",
    "encrypt_token", "encrypt_token", "get", write>>

\* Invocation i takes a step in which a document-store call raises.
StoreStepFails(i) ==
  pc[i] \in {"refreshed", "read"} /\ pc'[i] = "failed"

\* C12: an invocation reports success only when every step succeeded, the
\* write of the document included.  When a call to the document store raises
\* after the provider issued new tokens, the error is logged and the store's
\* exception reaches the caller unchanged; the invocation neither retries nor
\* rolls back, the document keeps the tokens it held, and the invocation never
\* reports success afterwards.
C12_SuccessOnlyAfterWrite ==
  /\ [](\A i \in Procs :
          pc[i] = "done" =>
            /\ raised[i] = NoException
            /\ \E write \in StoreWrites : OpsOf(i) = AllSteps(write)
            /\ error_log[i] = MissingDocLog(doc_exists[i]))
  /\ [][\A i \in Procs :
          /\ (pc'[i] = "done" /\ pc[i] # "done") =>
               /\ pc[i] = "read"
               /\ HoldsTokensOf(doc', i)
          /\ StoreStepFails(i) =>
               /\ raised'[i] = StoreFailure
               /\ raised'[i].cause = ""
               /\ doc' = doc
               /\ issued' = issued
               /\ Len(error_log'[i]) > 0
               /\ error_log'[i][Len(error_log'[i])] = "Error refreshing token"
               /\ CountOps(trace'[i], {"refresh_access_token"}) = 1
               /\ CountOps(trace'[i], {"get"}) = 1
               /\ CountOps(trace'[i], StoreWrites) <= 1
          /\ pc[i] = "failed" =>
               /\ pc'[i] = "failed"
               /\ trace'[i] = trace[i]
               /\ raised'[i] = raised[i]]_vars

\* The provider issued new tokens to an invocation whose update of the
\* document then raised: the invocation failed with the store's exception,
\* logged it, and the document still holds the tokens it held before.
C12_Witness ==
  \E i \in Procs :
    /\ pc[i] = "failed"
    /\ raised[i] = StoreFailure
    /\ DOMAIN new_tokens[i] = TokenFields
    /\ LastCall(i).op = "update"
    /\ error_log[i] = ExceptLog
    /\ doc = RegisteredDoc
    /\ ~HoldsTokensOf(doc, i)

\* s is base64 as b64encode writes it: whole quanta of four characters of
\* the alphabet, with "=" only as the last one or two characters.
StrictBase64(s) ==
  /\ Len(s) % 4 = 0
  /\ \A n \in 1..Len(s) :
       \/ IsB64Data(s[n])
       \/ IsPad(s[n]) /\ n >= Len(s) - 1 /\ (n < Len(s) => IsPad(s[Len(s)]))

\* C13: decrypt_token applied to a string of exactly two colon-delimited
\* parts, one of which is not valid base64 (a character outside the alphabet
\* or wrong padding), fails with a malformed-token error (the ValueError of
\* the format check or the decoder's binascii.Error) and returns no value.
\* The code does not behave so: b64decode is called without validate, skips
\* the characters outside the alphabet, and decryption goes on.
C13_InvalidBase64Rejected ==
  (/\ cpc = "rawdone"
   /\ CountChar(token, Colon) = 1
   /\ \E part \in {Split(token, Colon)[1], Split(token, Colon)[2]} :
        ~StrictBase64(part)) =>
    /\ ~result.ok
    /\ result.err \in {"ValueError", "binascii.Error"}

====
